---- MODULE Spec2Model ----
(***************************************************************************)
(* Model of Restaurantlicences_CSV/filter_veg_fe_hd.py: the bilingual      *)
(* keyword filter over an FEHD licence table.                              *)
(*                                                                         *)
(* A Python str is a sequence of characters; a character is a one-letter   *)
(* string, a CJK character is written by its code point ("u7d20").  A cell *)
(* of the DataFrame (read with dtype=str) is either a str or the float NaN *)
(* that pandas puts in an empty cell.                                      *)
(***************************************************************************)
EXTENDS Integers, Sequences, FiniteSets, TLC

VARIABLES
    df_columns,      \* df.columns: the header of the table, in file order
    df_rows,         \* the rows of df, in file order; a row maps column -> cell
    min_matches,     \* the min_matches argument
    pc,              \* position of filter_and_select
    search_columns,  \* the columns scanned for keywords
    idx,             \* number of rows df.iterrows() has yielded so far
    col,             \* index in search_columns of the next column to scan
    en_matches,      \* English tokens of the current row
    cn_matches,      \* Chinese keywords of the current row
    matched,         \* the result list
    src,             \* for each record of matched, the index of its source row
    written,         \* the list json.dump wrote
    result           \* the tuple filter_and_select returned

vars == <<df_columns, df_rows, min_matches, pc, search_columns, idx, col,
          en_matches, cn_matches, matched, src, written, result>>

-----------------------------------------------------------------------------
(* Values *)

Str(s) == [type |-> "str", s |-> s]
NaN == [type |-> "float", s |-> <<>>]
isinstance_str(v) == v.type = "str"

None == [type |-> "None"]
ValueError == [type |-> "ValueError"]

\* a Python float in decimal: the digits before and after the point, with no
\* leading zero before it and no trailing zero after it
Number(sign, int, frac) ==
    [type |-> "number", sign |-> sign, int |-> int, frac |-> frac]

-----------------------------------------------------------------------------
(* Characters *)

UpperCase == <<"A","B","C","D","E","F","G","H","I","J","K","L","M",
               "N","O","P","Q","R","S","T","U","V","W","X","Y","Z">>
LowerCase == <<"a","b","c","d","e","f","g","h","i","j","k","l","m",
               "n","o","p","q","r","s","t","u","v","w","x","y","z">>
Digits == <<"0","1","2","3","4","5","6","7","8","9">>
CJK == {"u7d20", "u98df", "u7d14", "u5168", "u9f4b", "u83dc", "u9928",
        "u5e97", "u9910", "u5bb6"}
Whitespace == {" "}

Range(f) == {f[i] : i \in DOMAIN f}
IndexOf(seq, x) == CHOOSE i \in DOMAIN seq : seq[i] = x

\* str.lower() of one character
LowerOf == [c \in Range(UpperCase) |-> LowerCase[IndexOf(UpperCase, c)]]
LowerChar(c) == IF c \in DOMAIN LowerOf THEN LowerOf[c] ELSE c

\* str.lower()
lower(s) == [i \in DOMAIN s |-> LowerChar(s[i])]

\* \w of a str pattern: letters, digits and the underscore, CJK included
WordChars ==
    Range(UpperCase) \cup Range(LowerCase) \cup Range(Digits) \cup CJK \cup {"_"}
IsWordChar(c) == c \in WordChars

\* is there a \b between s[p-1] and s[p]
WordBoundary(s, p) ==
    LET before == p - 1 \in DOMAIN s /\ IsWordChar(s[p - 1])
        after == p \in DOMAIN s /\ IsWordChar(s[p])
    IN before # after

\* str.strip()
RECURSIVE lstrip(_)
lstrip(s) ==
    IF s # <<>> /\ Head(s) \in Whitespace THEN lstrip(Tail(s)) ELSE s

RECURSIVE rstrip(_)
rstrip(s) ==
    IF s # <<>> /\ s[Len(s)] \in Whitespace
    THEN rstrip(SubSeq(s, 1, Len(s) - 1))
    ELSE s

strip(s) == rstrip(lstrip(s))

\* str.replace(c, "")
remove(s, c) == SelectSeq(s, LAMBDA x : x # c)

\* kw in val
Contains(val, kw) ==
    \E p \in 1..(Len(val) - Len(kw) + 1) : SubSeq(val, p, p + Len(kw) - 1) = kw

-----------------------------------------------------------------------------
(* Vocabularies *)

vegetarian == <<"v","e","g","e","t","a","r","i","a","n">>
vegan == <<"v","e","g","a","n">>
veggie == <<"v","e","g","g","i","e">>
friendly == <<"-","f","r","i","e","n","d","l","y">>
plant == <<"p","l","a","n","t">>
based == <<"b","a","s","e","d">>
pure == <<"p","u","r","e">>
veg == <<"v","e","g">>

eng_keywords ==
    << vegetarian, vegan, veggie, vegan \o friendly, vegetarian \o friendly,
       plant \o <<"-">> \o based, plant \o <<" ">> \o based,
       pure \o <<" ">> \o veg, pure \o <<"-">> \o veg, veg >>

\* the vocabulary with the longer keywords first
cn_keywords_longest_first ==
    << <<"u7d20","u98df","u9928">>, <<"u7d20","u98df","u5e97">>,
       <<"u7d20","u9f4b">>, <<"u7d20","u98df">>, <<"u7d14","u7d20">>,
       <<"u5168","u7d20">>, <<"u9f4b">>, <<"u7d20","u83dc">>,
       <<"u7d20","u9910">>, <<"u7d20","u5bb6">> >>

cn_keywords ==
    << <<"u7d20","u98df">>, <<"u7d14","u7d20">>, <<"u5168","u7d20">>,
       <<"u9f4b">>, <<"u7d20","u83dc">>, <<"u7d20","u98df","u9928">>,
       <<"u7d20","u98df","u5e97">>, <<"u7d20","u9910">>,
       <<"u7d20","u9f4b">>, <<"u7d20","u5bb6">> >>

-----------------------------------------------------------------------------
(* eng_pattern: \b(k1|k2|...)\b with re.IGNORECASE *)

\* alternative k matches val at position p, the \b on both ends included
AltMatchesAt(val, k, p) ==
    /\ WordBoundary(val, p)
    /\ p + Len(k) - 1 <= Len(val)
    /\ \A i \in DOMAIN k : LowerChar(val[p + i - 1]) = k[i]
    /\ WordBoundary(val, p + Len(k))

\* the alternation tries its alternatives left to right and keeps the first
\* one with which the whole pattern matches; 0 when none does
FirstAlternative(val, p) ==
    LET ok == {a \in DOMAIN eng_keywords : AltMatchesAt(val, eng_keywords[a], p)}
    IN IF ok = {} THEN 0 ELSE CHOOSE a \in ok : \A b \in ok : a <= b

\* the scan of eng_pattern.findall(val) from position p: the non-overlapping
\* matches, left to right, each with its start and the text of group 1
RECURSIVE scan_from(_, _)
scan_from(val, p) ==
    IF p > Len(val) THEN <<>>
    ELSE LET a == FirstAlternative(val, p)
         IN IF a = 0 THEN scan_from(val, p + 1)
            ELSE LET n == Len(eng_keywords[a])
                 IN <<[start |-> p, group |-> SubSeq(val, p, p + n - 1)]>>
                        \o scan_from(val, p + n)

eng_pattern_finditer(val) == scan_from(val, 1)

eng_pattern_findall(val) ==
    LET ms == eng_pattern_finditer(val) IN [i \in DOMAIN ms |-> ms[i].group]

-----------------------------------------------------------------------------
(* The body of the column loop *)

\* for x in xs: list.append(x), the membership test left out
AppendAll(list, xs) == list \o xs

\* for x in xs: if x not in list: list.append(x)
RECURSIVE AppendNew(_, _)
AppendNew(list, xs) ==
    IF xs = <<>> THEN list
    ELSE AppendNew(IF Head(xs) \in Range(list) THEN list
                   ELSE Append(list, Head(xs)),
                   Tail(xs))

\* the English matches of one value replacing those of the earlier columns
scan_english_replace(en, val) ==
    LET ms == eng_pattern_findall(val)
    IN AppendNew(<<>>, [i \in DOMAIN ms |-> lower(ms[i])])

\* the English matches of one value, lowercased, added to en
scan_english(en, val) ==
    LET ms == eng_pattern_findall(val)
    IN AppendNew(en, [i \in DOMAIN ms |-> lower(ms[i])])

\* the Chinese keywords of one value, in vocabulary order, added to cn
scan_chinese(cn, val) ==
    AppendNew(cn, SelectSeq(cn_keywords, LAMBDA kw : Contains(val, kw)))

\* the threshold test with > for >=
qualifies_strict(en, cn, m) == Len(en) + Len(cn) > m

\* the threshold test with == for >=
qualifies_exact(en, cn, m) == Len(en) + Len(cn) = m

\* the threshold test
qualifies(en, cn, m) == Len(en) + Len(cn) >= m

\* row.get(c, default)
row_get(row, c, default) == IF c \in DOMAIN row THEN row[c] ELSE default

\* lines 73-87 for one row: the matches after scanning the columns cols in
\* order, starting from the lists en and cn
RECURSIVE keyword_matches(_, _, _, _)
keyword_matches(row, cols, en, cn) ==
    IF cols = <<>> THEN [en |-> en, cn |-> cn]
    ELSE LET val == row_get(row, Head(cols), Str(<<>>))
         IN IF ~isinstance_str(val)
            THEN keyword_matches(row, Tail(cols), en, cn)
            ELSE keyword_matches(row, Tail(cols), scan_english(en, val.s),
                                 scan_chinese(cn, val.s))

-----------------------------------------------------------------------------
(* to_float_or_none *)

RECURSIVE StripLeadingZeros(_)
StripLeadingZeros(ds) ==
    IF ds # <<>> /\ Head(ds) = "0" THEN StripLeadingZeros(Tail(ds)) ELSE ds

RECURSIVE StripTrailingZeros(_)
StripTrailingZeros(ds) ==
    IF ds # <<>> /\ ds[Len(ds)] = "0"
    THEN StripTrailingZeros(SubSeq(ds, 1, Len(ds) - 1))
    ELSE ds

\* float(s) of a str in decimal notation: optional surrounding whitespace,
\* an optional sign, digits with at most one point and at least one digit.
\* Exponents, underscores, "inf" and "nan" are outside the texts of the model.
float(s) ==
    LET t == strip(s)
        signed == t # <<>> /\ t[1] \in {"+", "-"}
        body == IF signed THEN Tail(t) ELSE t
        ds == remove(body, ".")
    IN IF /\ ds # <<>>
          /\ \A i \in DOMAIN ds : ds[i] \in Range(Digits)
          /\ Len(body) - Len(ds) <= 1
       THEN LET point == IF Len(body) = Len(ds) THEN Len(body) + 1
                         ELSE IndexOf(body, ".")
            IN Number(IF signed /\ t[1] = "-" THEN -1 ELSE 1,
                      StripLeadingZeros(SubSeq(body, 1, point - 1)),
                      StripTrailingZeros(SubSeq(body, point + 1, Len(body))))
       ELSE ValueError

\* to_float_or_none without the second attempt
to_float_or_none_direct(val) ==
    IF ~isinstance_str(val) THEN None
    ELSE LET direct == float(val.s)
         IN IF direct # ValueError THEN direct ELSE None

to_float_or_none(val) ==
    IF ~isinstance_str(val) THEN None
    ELSE LET direct == float(val.s)
         IN IF direct # ValueError THEN direct
            ELSE LET again == float(strip(remove(val.s, ",")))
                 IN IF again # ValueError THEN again ELSE None

-----------------------------------------------------------------------------
(* Columns *)

col_map ==
    [ Name_EN |-> <<"NSEARCH03_EN", "NAME_EN", "NSEARCH03", "ESTABLISHMENT_NAME_EN">>,
      Name_TC |-> <<"NSEARCH03_TC", "NAME_TC", "NSEARCH03_TC">>,
      Address_EN |-> <<"ADDRESS_EN", "ADDRESS">>,
      Address_TC |-> <<"ADDRESS_TC">>,
      District_EN |-> <<"SEARCH01_EN">>,
      District_TC |-> <<"SEARCH01_TC">>,
      Latitude |-> <<"LATITUDE">>,
      Longitude |-> <<"LONGITUDE">> ]

search_priority ==
    col_map.Name_EN \o col_map.Name_TC
        \o <<"ADDRESS_EN", "ADDRESS_TC", "DATASET_EN", "DATASET_TC", "NAME_EN", "NAME_TC">>

\* the known search columns the table has, each once, in priority order;
\* when it has none of them, the object columns of the table, which are all
\* its columns since read_csv is given dtype=str
build_search_columns(columns) ==
    LET known == AppendNew(<<>>, SelectSeq(search_priority,
                                           LAMBDA c : c \in Range(columns)))
    IN IF known = <<>> THEN columns ELSE known

\* first_existing returning the value as it stands in the cell
RECURSIVE first_existing_raw(_, _, _)
first_existing_raw(columns, row, candidates) ==
    IF candidates = <<>> THEN <<>>
    ELSE LET c == Head(candidates)
             v == row_get(row, c, None)
         IN IF c \in Range(columns) /\ isinstance_str(v) /\ strip(v.s) # <<>>
            THEN v.s
            ELSE first_existing_raw(columns, row, Tail(candidates))

RECURSIVE first_existing(_, _, _)
first_existing(columns, row, candidates) ==
    IF candidates = <<>> THEN <<>>
    ELSE LET c == Head(candidates)
             v == row_get(row, c, None)
         IN IF c \in Range(columns) /\ isinstance_str(v) /\ strip(v.s) # <<>>
            THEN strip(v.s)
            ELSE first_existing(columns, row, Tail(candidates))

\* the loops of lines 108-115: the first candidate the table has decides
RECURSIVE coordinate(_, _, _)
coordinate(columns, row, candidates) ==
    IF candidates = <<>> THEN None
    ELSE IF Head(candidates) \in Range(columns)
         THEN to_float_or_none(row_get(row, Head(candidates), None))
         ELSE coordinate(columns, row, Tail(candidates))

\* the output record of a qualifying row
build_record(columns, row, en, cn) ==
    [ Name_EN |-> first_existing(columns, row, col_map.Name_EN),
      Name_TC |-> first_existing(columns, row, col_map.Name_TC),
      Address_EN |-> first_existing(columns, row, col_map.Address_EN),
      Address_TC |-> first_existing(columns, row, col_map.Address_TC),
      District_EN |-> first_existing(columns, row, col_map.District_EN),
      District_TC |-> first_existing(columns, row, col_map.District_TC),
      Latitude |-> coordinate(columns, row, col_map.Latitude),
      Longitude |-> coordinate(columns, row, col_map.Longitude),
      Keyword_EN |-> en,
      Keyword_TC |-> cn ]

-----------------------------------------------------------------------------
(* The tables the run is given *)

MaxRows == 2
MaxFragments == 3
MaxMinMatches == 3

\* the concatenations of at most n fragments
RECURSIVE Concats(_, _)
Concats(fragments, n) ==
    IF n = 0 THEN {<<>>}
    ELSE LET shorter == Concats(fragments, n - 1)
         IN shorter \cup {f \o t : f \in fragments, t \in shorter}

\* the sequences of at most n elements of S
RECURSIVE SeqsUpTo(_, _)
SeqsUpTo(S, n) ==
    IF n = 0 THEN {<<>>}
    ELSE LET shorter == SeqsUpTo(S, n - 1)
         IN shorter \cup {Append(t, x) : t \in shorter, x \in S}

EnglishFragments ==
    { veg, <<"V","e","g","a","n">>, <<"e","t","a","r","i","a","n">>, friendly,
      pure, <<" ">> }

ChineseFragments ==
    { <<"u7d20">>, <<"u98df">>, <<"u9928">>, <<"u5e97">>, <<"u9f4b">>, <<" ">> }

NumberFragments ==
    { <<"2","2">>, <<"3","0","2">>, <<",">>, <<".">>, <<" ">>, <<"-">>,
      <<"N","/","A">> }

\* one row, one cell: a name in English
EnglishTables ==
    { [columns |-> <<"NAME_EN">>, rows |-> <<[c \in {"NAME_EN"} |-> Str(t)]>>] :
        t \in Concats(EnglishFragments, MaxFragments) }

\* one row, one cell: an address in Chinese
ChineseTables ==
    { [columns |-> <<"ADDRESS_TC">>, rows |-> <<[c \in {"ADDRESS_TC"} |-> Str(t)]>>] :
        t \in Concats(ChineseFragments, MaxFragments) }

\* one row: a name and a latitude
CoordinateTables ==
    { [columns |-> <<"NAME_EN", "LATITUDE">>,
       rows |-> <<[c \in {"NAME_EN", "LATITUDE"} |->
                    IF c = "NAME_EN" THEN Str(veg) ELSE v]>>] :
        v \in {NaN} \cup {Str(t) : t \in Concats(NumberFragments, MaxFragments)} }

\* one row of three cells, the table with or without known search columns
WideHeaders ==
    { <<"NAME_EN", "ADDRESS_EN", "NSEARCH03_EN">>,
      <<"SEARCH01_EN", "NAME_TC", "LATITUDE">>,
      <<"SEARCH01_TC", "LONGITUDE", "LATITUDE">> }

WideCells ==
    { NaN,
      Str(<<" ">>),
      Str(<<" ","V","e","g","a","n"," ">> \o veg),
      Str(veg \o <<" ","u7d20","u9f4b"," ">>) }

WideTables ==
    UNION { { [columns |-> h, rows |-> <<r>>] : r \in [Range(h) -> WideCells] } :
            h \in WideHeaders }

\* several rows of two cells from small pools
Headers ==
    { <<"NAME_EN", "NSEARCH03_EN">>,
      <<"ADDRESS_TC", "NAME_TC">>,
      <<"SEARCH01_EN", "LONGITUDE">> }

FirstCells ==
    { NaN,
      Str(<<" ">> \o vegan \o <<" ">>),
      Str(<<"u7d20","u98df"," ">> \o veg) }

SecondCells == { NaN, Str(<<" ">> \o vegan \o <<" ">>) }

GeneralRows(h) ==
    { [c \in Range(h) |-> IF c = h[1] THEN a ELSE b] :
        a \in FirstCells, b \in SecondCells }

GeneralTables ==
    UNION { { [columns |-> h, rows |-> rs] :
                rs \in SeqsUpTo(GeneralRows(h), MaxRows) } : h \in Headers }

MinMatchesRange == -1..MaxMinMatches

\* the calls: a table with a threshold
Calls ==
    (EnglishTables \X {1}) \cup (ChineseTables \X {2})
        \cup (CoordinateTables \X {1}) \cup (WideTables \X {0, 2})
        \cup (GeneralTables \X MinMatchesRange)

-----------------------------------------------------------------------------
(* filter_and_select *)

Init ==
    /\ \E c \in Calls :
          /\ df_columns = c[1].columns
          /\ df_rows = c[1].rows
          /\ min_matches = c[2]
    /\ pc = "start"
    /\ search_columns = <<>>
    /\ idx = 0
    /\ col = 0
    /\ en_matches = <<>>
    /\ cn_matches = <<>>
    /\ matched = <<>>
    /\ src = <<>>
    /\ written = None
    /\ result = None

\* lines 42-71: the search columns, the patterns, the empty result list
Start ==
    /\ pc = "start"
    /\ search_columns' = build_search_columns(df_columns)
    /\ matched' = <<>>
    /\ pc' = "rows"
    /\ UNCHANGED <<df_columns, df_rows, min_matches, idx, col, en_matches,
                   cn_matches, src, written, result>>

\* lines 72-74: df.iterrows() yields the next row
NextRow ==
    /\ pc = "rows"
    /\ idx < Len(df_rows)
    /\ idx' = idx + 1
    /\ en_matches' = <<>>
    /\ cn_matches' = <<>>
    /\ col' = 1
    /\ pc' = "columns"
    /\ UNCHANGED <<df_columns, df_rows, min_matches, search_columns, matched,
                   src, written, result>>

\* ScanColumn with break for continue
ScanColumnBreak ==
    /\ pc = "columns"
    /\ col <= Len(search_columns)
    /\ LET val == row_get(df_rows[idx], search_columns[col], Str(<<>>))
       IN IF ~isinstance_str(val)
          THEN /\ UNCHANGED <<en_matches, cn_matches>>
               /\ col' = Len(search_columns) + 1
          ELSE /\ en_matches' = scan_english(en_matches, val.s)
               /\ cn_matches' = scan_chinese(cn_matches, val.s)
               /\ col' = col + 1
    /\ UNCHANGED <<df_columns, df_rows, min_matches, pc, search_columns, idx,
                   matched, src, written, result>>

\* lines 75-87: one turn of the column loop
ScanColumn ==
    /\ pc = "columns"
    /\ col <= Len(search_columns)
    /\ LET val == row_get(df_rows[idx], search_columns[col], Str(<<>>))
       IN IF ~isinstance_str(val)
          THEN UNCHANGED <<en_matches, cn_matches>>
          ELSE /\ en_matches' = scan_english(en_matches, val.s)
               /\ cn_matches' = scan_chinese(cn_matches, val.s)
    /\ col' = col + 1
    /\ UNCHANGED <<df_columns, df_rows, min_matches, pc, search_columns, idx,
                   matched, src, written, result>>

\* Select with the record put at the front of the list
SelectPrepend ==
    /\ pc = "columns"
    /\ col > Len(search_columns)
    /\ IF qualifies(en_matches, cn_matches, min_matches)
       THEN /\ matched' = <<build_record(df_columns, df_rows[idx],
                                         en_matches, cn_matches)>> \o matched
            /\ src' = <<idx>> \o src
       ELSE UNCHANGED <<matched, src>>
    /\ pc' = "rows"
    /\ UNCHANGED <<df_columns, df_rows, min_matches, search_columns, idx, col,
                   en_matches, cn_matches, written, result>>

\* lines 88-121: the threshold test and the record of a qualifying row
Select ==
    /\ pc = "columns"
    /\ col > Len(search_columns)
    /\ IF qualifies(en_matches, cn_matches, min_matches)
       THEN /\ matched' = Append(matched, build_record(df_columns, df_rows[idx],
                                                       en_matches, cn_matches))
            /\ src' = Append(src, idx)
       ELSE UNCHANGED <<matched, src>>
    /\ pc' = "rows"
    /\ UNCHANGED <<df_columns, df_rows, min_matches, search_columns, idx, col,
                   en_matches, cn_matches, written, result>>

\* lines 123-127: the list is written and the counts are returned
Finish ==
    /\ pc = "rows"
    /\ idx = Len(df_rows)
    /\ written' = matched
    /\ result' = <<Len(df_rows), Len(matched)>>
    /\ pc' = "done"
    /\ UNCHANGED <<df_columns, df_rows, min_matches, search_columns, idx, col,
                   en_matches, cn_matches, matched, src>>

Next == Start \/ NextRow \/ ScanColumn \/ Select \/ Finish

Spec == Init /\ [][Next]_vars

-----------------------------------------------------------------------------
(* What a row holds, stated on sets *)

\* the rows that have passed the threshold test
Tested(i) == i < idx \/ (i = idx /\ pc \in {"rows", "done"})

\* the lowercased English tokens and the Chinese keywords of one value
EnglishIn(val) ==
    LET ms == eng_pattern_findall(val) IN {lower(ms[i]) : i \in DOMAIN ms}
ChineseIn(val) == {kw \in Range(cn_keywords) : Contains(val, kw)}

\* the positions of cols whose cell in row is a str
StrColumns(row, cols) == {j \in DOMAIN cols : isinstance_str(row[cols[j]])}

EnglishFound(row, cols) ==
    UNION {EnglishIn(row[cols[j]].s) : j \in StrColumns(row, cols)}
ChineseFound(row, cols) ==
    UNION {ChineseIn(row[cols[j]].s) : j \in StrColumns(row, cols)}
MatchCount(row, cols) ==
    Cardinality(EnglishFound(row, cols)) + Cardinality(ChineseFound(row, cols))

Emitted(i) == \E k \in DOMAIN src : src[k] = i

-----------------------------------------------------------------------------
\* C1: when the pass is complete, a row has an output record if and only if
\* the number of distinct English tokens plus the number of distinct Chinese
\* keywords found in its searchable columns is at least min_matches, for any
\* integer min_matches, and the keyword lists of the record have that many
\* entries.
C1_RecordIffThreshold ==
    /\ Len(src) = Len(matched)
    /\ pc = "done" =>
          /\ written = matched
          /\ \A i \in DOMAIN df_rows :
                Emitted(i) <=> MatchCount(df_rows[i], search_columns) >= min_matches
          /\ \A k \in DOMAIN written :
                Len(written[k].Keyword_EN) + Len(written[k].Keyword_TC)
                   = MatchCount(df_rows[src[k]], search_columns)

\* a finished pass that kept a row exactly at a threshold of 2 or more and
\* dropped a row with some matches below it
C1_Witness ==
    /\ pc = "done"
    /\ min_matches >= 2
    /\ \E i, j \in DOMAIN df_rows :
          /\ Emitted(i)
          /\ MatchCount(df_rows[i], search_columns) = min_matches
          /\ ~Emitted(j)
          /\ MatchCount(df_rows[j], search_columns) = min_matches - 1

-----------------------------------------------------------------------------
\* C4: the records are in the order of their rows: at every point of the run
\* the source rows of the result list are strictly increasing (no row twice)
\* and lie among the rows read so far; when the pass is complete every row
\* has been read, every record carries the keywords of its own row, every
\* row that meets the threshold has exactly one record, and the run returns
\* the number of input rows with the number of records.
C4_OrderPreserved ==
    /\ Len(src) = Len(matched)
    /\ \A k \in DOMAIN src : src[k] \in 1..idx
    /\ \A k1, k2 \in DOMAIN src : k1 < k2 => src[k1] < src[k2]
    /\ pc = "done" =>
          /\ idx = Len(df_rows)
          /\ result = <<Len(df_rows), Len(matched)>>
          /\ written = matched
          /\ \A k \in DOMAIN written :
                /\ Range(written[k].Keyword_EN)
                      = EnglishFound(df_rows[src[k]], search_columns)
                /\ Range(written[k].Keyword_TC)
                      = ChineseFound(df_rows[src[k]], search_columns)
          /\ \A i \in DOMAIN df_rows :
                MatchCount(df_rows[i], search_columns) >= min_matches
                   => Cardinality({k \in DOMAIN src : src[k] = i}) = 1

\* a finished pass over two rows that kept both, with different records
C4_Witness ==
    /\ pc = "done"
    /\ result = <<2, 2>>
    /\ matched[1] # matched[2]

-----------------------------------------------------------------------------
\* C5: the outputs are nested in the threshold.  When the pass is complete,
\* a row that a pass keeps under a threshold m2 >= min_matches has been kept
\* by this one, with the very record that pass builds for it, and a row this
\* pass has kept is kept under every threshold m1 <= min_matches.
C5_NestedInThreshold ==
    pc = "done" =>
       \A i \in DOMAIN df_rows :
          LET km == keyword_matches(df_rows[i], search_columns, <<>>, <<>>)
              rec == build_record(df_columns, df_rows[i], km.en, km.cn)
          IN \A m \in MinMatchesRange :
                /\ m >= min_matches /\ qualifies(km.en, km.cn, m)
                      => \E k \in DOMAIN src : src[k] = i /\ written[k] = rec
                /\ m <= min_matches /\ Emitted(i)
                      => qualifies(km.en, km.cn, m)

\* a finished pass at threshold 1 that kept a row a threshold of 3 keeps
\* and a row a threshold of 3 drops
C5_Witness ==
    /\ pc = "done"
    /\ min_matches = 1
    /\ \E i, j \in DOMAIN df_rows :
          /\ Emitted(i) /\ MatchCount(df_rows[i], search_columns) >= 3
          /\ Emitted(j) /\ MatchCount(df_rows[j], search_columns) < 3

-----------------------------------------------------------------------------
\* the columns of cols at the positions of A, in the order of cols
RECURSIVE Pick(_, _, _)
Pick(cols, A, j) ==
    IF j > Len(cols) THEN <<>>
    ELSE (IF j \in A THEN <<cols[j]>> ELSE <<>>) \o Pick(cols, A, j + 1)

\* the combined count of a row scanned over the columns cols
ScanCount(row, cols) ==
    LET km == keyword_matches(row, cols, <<>>, <<>>) IN Len(km.en) + Len(km.cn)

\* C6: for every row, once its scan is complete, the combined count over a
\* set of search columns is never smaller than the count over a subset of
\* it, and the lists of the run hold the count over all the search columns.
C6_MonotoneInColumns ==
    pc = "columns" /\ col > Len(search_columns) =>
       LET count == [A \in SUBSET DOMAIN search_columns |->
                        ScanCount(df_rows[idx], Pick(search_columns, A, 1))]
       IN /\ Len(en_matches) + Len(cn_matches) = count[DOMAIN search_columns]
          /\ \A B \in DOMAIN count : \A A \in SUBSET B : count[A] <= count[B]

\* a row scanned over three columns where one more column adds matches and
\* another one adds none to a count that is not zero
C6_Witness ==
    /\ pc = "columns"
    /\ col > Len(search_columns)
    /\ Len(search_columns) = 3
    /\ \E a, b, c \in DOMAIN search_columns :
          /\ 0 < ScanCount(df_rows[idx], Pick(search_columns, {a}, 1))
          /\ ScanCount(df_rows[idx], Pick(search_columns, {a}, 1))
                < ScanCount(df_rows[idx], Pick(search_columns, {a, b}, 1))
          /\ ScanCount(df_rows[idx], Pick(search_columns, {a, b}, 1))
                = ScanCount(df_rows[idx], Pick(search_columns, {a, b, c}, 1))
          /\ isinstance_str(df_rows[idx][search_columns[c]])
          /\ c \notin {a, b}

-----------------------------------------------------------------------------
Min(S) == CHOOSE x \in S : \A y \in S : x <= y
Max(S) == CHOOSE x \in S : \A y \in S : x >= y

\* the first column of cols, by position, in which a keyword is found
FirstColumn(row, cols, kw, In(_)) ==
    CHOOSE j \in StrColumns(row, cols) :
       /\ kw \in In(row[cols[j]].s)
       /\ \A j2 \in StrColumns(row, cols) : kw \in In(row[cols[j2]].s) => j <= j2

\* list has no entry twice, holds only keywords found in the row, and a
\* keyword first found in an earlier column stands before one first found
\* in a later column
FirstSeenOrder(list, row, cols, In(_)) ==
    LET found == [j \in StrColumns(row, cols) |-> In(row[cols[j]].s)]
        first == [a \in DOMAIN list |->
                    LET seen == {j \in DOMAIN found : list[a] \in found[j]}
                    IN IF seen = {} THEN 0 ELSE Min(seen)]
    IN /\ \A a, b \in DOMAIN list : a # b => list[a] # list[b]
       /\ \A a \in DOMAIN list : first[a] # 0
       /\ \A a, b \in DOMAIN list : first[a] < first[b] => a < b

\* C2: in every written record Keyword_EN and Keyword_TC hold no entry
\* twice, and their entries stand in the order of the search columns in
\* which they were first found.
C2_DistinctFirstSeen ==
    pc = "done" =>
       \A k \in DOMAIN written :
          /\ FirstSeenOrder(written[k].Keyword_EN, df_rows[src[k]], search_columns,
                            EnglishIn)
          /\ FirstSeenOrder(written[k].Keyword_TC, df_rows[src[k]], search_columns,
                            ChineseIn)

\* a record with two English tokens first found in different columns, the
\* earlier one found again in the later column
C2_Witness ==
    \E k \in DOMAIN matched :
       LET row == df_rows[src[k]]
           list == matched[k].Keyword_EN
       IN /\ Len(list) = 2
          /\ FirstColumn(row, search_columns, list[1], EnglishIn)
                < FirstColumn(row, search_columns, list[2], EnglishIn)
          /\ \E j \in StrColumns(row, search_columns) :
                /\ j > FirstColumn(row, search_columns, list[1], EnglishIn)
                /\ list[1] \in EnglishIn(row[search_columns[j]].s)

-----------------------------------------------------------------------------
\* s from its first to its last character that is not whitespace
NonBlank(s) == {i \in DOMAIN s : s[i] \notin Whitespace}
Trimmed(s) ==
    IF NonBlank(s) = {} THEN <<>> ELSE SubSeq(s, Min(NonBlank(s)), Max(NonBlank(s)))

TextFields ==
    {"Name_EN", "Name_TC", "Address_EN", "Address_TC", "District_EN", "District_TC"}

RecordKeys ==
    TextFields \cup {"Latitude", "Longitude", "Keyword_EN", "Keyword_TC"}

\* column c is a column of the table and holds text in this row
Populated(row, c) ==
    c \in Range(df_columns) /\ isinstance_str(row[c]) /\ NonBlank(row[c].s) # {}

\* C3: every written record has all its keys, and each of the six textual
\* fields holds the trimmed value of the first candidate column that the
\* table has and that holds a non-blank str in the row, or the empty str
\* when there is no such candidate.
C3_FirstPopulatedCandidate ==
    pc = "done" =>
       \A k \in DOMAIN written :
          /\ DOMAIN written[k] = RecordKeys
          /\ \A f \in TextFields :
                LET row == df_rows[src[k]]
                    ok == {j \in DOMAIN col_map[f] : Populated(row, col_map[f][j])}
                IN written[k][f] =
                      IF ok = {} THEN <<>> ELSE Trimmed(row[col_map[f][Min(ok)]].s)

\* a record whose Name_EN is the trimmed NAME_EN cell because the first
\* candidate NSEARCH03_EN holds only whitespace, and whose Address_TC is
\* empty because the table has no ADDRESS_TC column
C3_Witness ==
    \E k \in DOMAIN matched :
       LET row == df_rows[src[k]]
       IN /\ {"NSEARCH03_EN", "NAME_EN"} \subseteq Range(df_columns)
          /\ "ADDRESS_TC" \notin Range(df_columns)
          /\ row["NSEARCH03_EN"] = Str(<<" ">>)
          /\ isinstance_str(row["NAME_EN"])
          /\ matched[k].Name_EN # <<>>
          /\ matched[k].Name_EN # row["NAME_EN"].s
          /\ matched[k].Address_TC = <<>>

-----------------------------------------------------------------------------
\* C7 as the specification states it: a row with a cell that is not a str
\* in one of its search columns is skipped entirely: the scan of its other
\* columns records nothing, and under a threshold of 1 or more the row has
\* no record.
C7_RowSkippedEntirely ==
    /\ pc = "columns" /\ (\E j \in 1..(col - 1) :
                             ~isinstance_str(df_rows[idx][search_columns[j]]))
          => en_matches = <<>> /\ cn_matches = <<>>
    /\ \A i \in DOMAIN df_rows :
          /\ Tested(i)
          /\ min_matches >= 1
          /\ \E j \in DOMAIN search_columns :
                ~isinstance_str(df_rows[i][search_columns[j]])
          => ~Emitted(i)

\* C7, amended: a cell that is not a str is passed over and the scan goes on
\* with the next column: the lists hold exactly what the str cells of the
\* columns scanned so far contain, and a written record holds what all the
\* str cells of its row contain.
C7_ColumnSkipped ==
    /\ pc = "columns" =>
          /\ Range(en_matches)
                = EnglishFound(df_rows[idx], SubSeq(search_columns, 1, col - 1))
          /\ Range(cn_matches)
                = ChineseFound(df_rows[idx], SubSeq(search_columns, 1, col - 1))
    /\ pc = "done" =>
          \A k \in DOMAIN written :
             /\ Range(written[k].Keyword_EN)
                   = EnglishFound(df_rows[src[k]], search_columns)
             /\ Range(written[k].Keyword_TC)
                   = ChineseFound(df_rows[src[k]], search_columns)

\* a row scanned to its end in which a NaN cell came before a str cell
\* with an English keyword
C7_Witness ==
    /\ pc = "columns"
    /\ col > Len(search_columns)
    /\ en_matches # <<>>
    /\ \E j1, j2 \in DOMAIN search_columns :
          /\ j1 < j2
          /\ ~isinstance_str(df_rows[idx][search_columns[j1]])
          /\ isinstance_str(df_rows[idx][search_columns[j2]])
          /\ EnglishIn(df_rows[idx][search_columns[j2]].s) # {}

-----------------------------------------------------------------------------
\* C8: in every value scanned so far, each match the scan reports is the
\* longest keyword of the vocabulary that matches at its position with a
\* word boundary on both ends, and its lowercased text is in the list.
C8_LongestMatch ==
    pc = "columns" =>
       \A j \in StrColumns(df_rows[idx], SubSeq(search_columns, 1, col - 1)) :
          LET val == df_rows[idx][search_columns[j]].s
              ms == eng_pattern_finditer(val)
          IN \A n \in DOMAIN ms :
                /\ lower(ms[n].group) \in Range(en_matches)
                /\ \A a \in DOMAIN eng_keywords :
                      AltMatchesAt(val, eng_keywords[a], ms[n].start)
                         => Len(eng_keywords[a]) <= Len(ms[n].group)

-----------------------------------------------------------------------------
\* t is a number in decimal notation: an optional sign, then digits with at
\* most one point among them
IsDecimal(t) ==
    LET b == IF t # <<>> /\ t[1] \in {"+", "-"} THEN Tail(t) ELSE t
        points == {i \in DOMAIN b : b[i] = "."}
        digits == {i \in DOMAIN b : b[i] \in Range(Digits)}
    IN digits # {} /\ Cardinality(points) <= 1 /\ points \cup digits = DOMAIN b

Commaless(s) == SelectSeq(s, LAMBDA x : x # ",")

Zeros(n) == [i \in 1..n |-> "0"]

\* out is the number that the decimal text t denotes
Denotes(t, out) ==
    LET point == {i \in DOMAIN t : t[i] = "."}
        before == {i \in DOMAIN t : t[i] \in Range(Digits)
                                    /\ \A q \in point : i < q}
        after == {i \in DOMAIN t : \E q \in point : i > q}
        int == [i \in 1..Cardinality(before) |-> t[Max(before) - Cardinality(before) + i]]
        frac == [i \in 1..Cardinality(after) |-> t[Min(after) + i - 1]]
    IN /\ out.type = "number"
       /\ out.sign = (IF t[1] = "-" THEN -1 ELSE 1)
       /\ \E z \in 0..Len(int) : int = Zeros(z) \o out.int
       /\ \E z \in 0..Len(frac) : frac = out.frac \o Zeros(z)
       /\ out.int # <<>> => out.int[1] # "0"
       /\ out.frac # <<>> => out.frac[Len(out.frac)] # "0"

\* out is what the coordinate column c of the row resolves to
Resolved(row, c, out) ==
    IF c \notin Range(df_columns) THEN out = None
    ELSE IF ~isinstance_str(row[c]) THEN out = None
    ELSE IF IsDecimal(Trimmed(row[c].s)) THEN Denotes(Trimmed(row[c].s), out)
    ELSE IF IsDecimal(Trimmed(Commaless(row[c].s)))
         THEN Denotes(Trimmed(Commaless(row[c].s)), out)
    ELSE out = None

t_22_302 == <<"2","2",",","3","0","2">>
t_N_A == <<"N","/","A">>

\* C9: in every written record Latitude and Longitude are None when the
\* table has no such column or the cell is not a str, the number the cell
\* denotes when it converts as it stands, the number it denotes without its
\* commas and surrounding whitespace when only that converts, and None
\* otherwise; "22,302" gives 22302.0 and "N/A" gives None; no conversion
\* error escapes, and the row keeps its record whatever the cell holds.
C9_CoordinateOrNone ==
    pc = "done" =>
       /\ \A k \in DOMAIN written :
             LET row == df_rows[src[k]]
             IN /\ written[k].Latitude # ValueError
                /\ written[k].Longitude # ValueError
                /\ Resolved(row, col_map.Latitude[1], written[k].Latitude)
                /\ Resolved(row, col_map.Longitude[1], written[k].Longitude)
                /\ "LATITUDE" \in Range(df_columns) /\ row["LATITUDE"] = Str(t_22_302)
                      => written[k].Latitude
                            = Number(1, <<"2","2","3","0","2">>, <<>>)
                /\ "LATITUDE" \in Range(df_columns) /\ row["LATITUDE"] = Str(t_N_A)
                      => written[k].Latitude = None
       /\ \A i \in DOMAIN df_rows :
             MatchCount(df_rows[i], search_columns) >= min_matches => Emitted(i)

\* a record whose Latitude 22302.0 comes from the cell "22,302"
C9_Witness ==
    \E k \in DOMAIN matched :
       /\ "LATITUDE" \in Range(df_columns)
       /\ df_rows[src[k]]["LATITUDE"] = Str(t_22_302)
       /\ matched[k].Latitude
             = Number(1, <<"2","2","3","0","2">>, <<>>)

-----------------------------------------------------------------------------
sushi == <<"u7d20", "u98df">>
sushiguan == <<"u7d20", "u98df", "u9928">>
sushidian == <<"u7d20", "u98df", "u5e97">>
zhai == <<"u9f4b">>
suzhai == <<"u7d20", "u9f4b">>

\* wherever long stands in list, short stands before it
StandsBefore(list, short, long) ==
    \A a \in DOMAIN list :
       list[a] = long => \E b \in 1..(a - 1) : list[b] = short

\* C10: in every written record Keyword_TC holds u7d20 u98df before
\* u7d20 u98df u9928 and before u7d20 u98df u5e97, and u9f4b before
\* u7d20 u9f4b; a row with one of the longer keywords in a search column
\* counts at least 2 and has its record when min_matches is at most 2.
C10_SubstringClosed ==
    pc = "done" =>
       /\ \A k \in DOMAIN written :
             /\ StandsBefore(written[k].Keyword_TC, sushi, sushiguan)
             /\ StandsBefore(written[k].Keyword_TC, sushi, sushidian)
             /\ StandsBefore(written[k].Keyword_TC, zhai, suzhai)
       /\ \A i \in DOMAIN df_rows :
             ChineseFound(df_rows[i], search_columns)
                   \cap {sushiguan, sushidian, suzhai} # {}
             => /\ MatchCount(df_rows[i], search_columns) >= 2
                /\ min_matches <= 2 => Emitted(i)

\* a record at threshold 2 whose only keywords are u7d20 u98df and
\* u7d20 u98df u9928, in this order
C10_Witness ==
    /\ min_matches = 2
    /\ \E k \in DOMAIN matched :
          /\ matched[k].Keyword_EN = <<>>
          /\ matched[k].Keyword_TC = <<sushi, sushiguan>>

====
